---- MODULE Spec2Model ----
(***************************************************************************)
(* Model of broodminder-cli: the advertisement decoder, the scan session   *)
(* (callback aggregation into devices_found) and the identity store         *)
(* (devices.json, load_saved_devices / save_devices).                       *)
(*                                                                          *)
(* Conventions.  A Python Optional is a sequence: None is <<>> and a        *)
(* present value x is <<x>>.  A Python float is the exact rational it        *)
(* denotes, kept in lowest terms as <<numerator, denominator>> (rounding of  *)
(* the binary representation is not modelled).  An f-string is the tuple of  *)
(* its parts.  Python index i of a bytes object is element i+1 here.         *)
(***************************************************************************)
EXTENDS Integers, Sequences, FiniteSets, TLC

VARIABLES
    file,           \* content of ~/.broodminder/devices.json
    saved_devices,  \* the running session's dict address -> BroodminderDevice
    devices_found,  \* the running session's list of BroodminderData
    pc,             \* where the scan session is
    file_before,    \* history: content of the file when save_devices opened it
    first_seen,     \* history: addresses in the order they were first ingested
    last_seen,      \* history: addresses in the order they were last ingested
    latest,         \* history: address -> the reading ingested last for it
    named,          \* history: addresses advertised with a non-empty local name
    store_before,   \* history: saved_devices as loaded when the session began
    observed,       \* what a concurrent reader's load_saved_devices returned
    adv,            \* decoder input: one advertisement with its known identity
    result,         \* decoder outcome for adv
    point,          \* outcome of broodminder_to_point on the decoded reading
    loop            \* the running command (monitor, influx_push): its locals

vars == <<file, saved_devices, devices_found, pc, file_before, first_seen,
          last_seen, latest, named, store_before, observed, adv, result, point, loop>>

sessionVars == <<file, saved_devices, devices_found, pc, file_before, first_seen,
                 last_seen, latest, named, store_before, observed>>

----------------------------------------------------------------------------
(* Python values *)

None == <<>>

Some(x) == <<x>>

\* Python truthiness of an Optional[str]: None and "" are falsy.
Truthy(opt) == opt # None /\ opt[1] # ""

\* Python `a or b`.
PyOr(a, b) == IF Truthy(a) THEN a ELSE b

\* A call's outcome: it returned ret (None or Some(value)), or raised exc.
Returned(opt) == [exc |-> "", ret |-> opt]

Raised(e) == [exc |-> e, ret |-> None]

\* Run the next statements F on the value returned so far, unless the call
\* already raised or returned None.
Then(o, F(_)) == IF o.exc # "" \/ o.ret = None THEN o ELSE F(o.ret[1])

Abs(n) == IF n < 0 THEN 0 - n ELSE n

RECURSIVE GCD(_, _)
GCD(a, b) == IF b = 0 THEN a ELSE GCD(b, a % b)

\* The rational n/d (d > 0) in lowest terms.
Rat(n, d) == LET g == GCD(Abs(n), d) IN <<n \div g, d \div g>>

RatAdd(a, b) == Rat(a[1] * b[2] + b[1] * a[2], a[2] * b[2])

RatSub(a, b) == Rat(a[1] * b[2] - b[1] * a[2], a[2] * b[2])

RatMulInt(a, k) == Rat(a[1] * k, a[2])

RatDivInt(a, k) == Rat(a[1], a[2] * k)

\* data[i] of a bytes object; the caller has checked i < len(data).
At(data, i) == data[i + 1]

\* data[lo] + (data[lo + 1] << 8)
LE16(data, lo) == At(data, lo) + At(data, lo + 1) * 256

----------------------------------------------------------------------------
(* cli.py: constants *)

BROODMINDER_MANUFACTURER_ID == 653

SCALE_FACTOR == 2

\* 0x7FFF: "no reading"
NO_READING == 32767

MODEL_NAMES ==
    [n \in {41, 42, 43, 47, 49, 52, 56, 57, 58} |->
        CASE n = 41 -> "BroodMinder-T"
          [] n = 42 -> "BroodMinder-TH"
          [] n = 43 -> "BroodMinder-W"
          [] n = 47 -> "BroodMinder-TMWC"
          [] n = 49 -> "BroodMinder-XLR"
          [] n = 52 -> "BroodMinder-SubHub"
          [] n = 56 -> "BroodMinder-WS"
          [] n = 57 -> "BroodMinder-WSLR"
          [] n = 58 -> "BroodMinder-WSXLR"]

LegacyModels == {41, 42, 43}

HumidityModels == {42, 47}

ScaleModels == {43, 47, 49, 56, 57, 58}

\* MODEL_NAMES.get(model_number, f"Unknown-{model_number}")
ModelName(n) ==
    IF n \in DOMAIN MODEL_NAMES THEN <<MODEL_NAMES[n]>> ELSE <<"Unknown-", n>>

----------------------------------------------------------------------------
(* cli.py: _process_broodminder_manufacturer_data *)

\* Lines 153-172: the length check and the BroodminderData constructor.
\* saved_device is None or Some(BroodminderDevice); attribute access on None
\* raises AttributeError.
ProcessHeader(address, saved_device, local_name, rssi, data) ==
    IF Len(data) < 3 THEN Returned(None)
    ELSE IF ~Truthy(local_name) /\ saved_device = None
         THEN Raised("AttributeError")              \* saved_device.name
    ELSE IF saved_device = None
         THEN Raised("AttributeError")              \* saved_device.friendly_name
    ELSE Returned(Some(
        [address          |-> address,
         name             |-> PyOr(local_name, saved_device[1].name),
         friendly_name    |-> saved_device[1].friendly_name,
         rssi             |-> rssi,
         model_number     |-> At(data, 0),
         model_name       |-> ModelName(At(data, 0)),
         firmware_version |-> <<At(data, 2), ".", At(data, 1)>>,
         temperature_f    |-> None,
         temperature_c    |-> None,
         humidity         |-> None,
         weight_left_lbs  |-> None,
         weight_right_lbs |-> None,
         total_weight_lbs |-> None,
         battery          |-> None,
         elapsed_time     |-> None,
         raw_data         |-> Some(data)]))

\* Lines 176-181: battery (byte 4) and elapsed time (bytes 5-6).
ProcessBatteryElapsed(data, r) ==
    LET r1 == [r EXCEPT !.battery =
                   IF Len(data) > 4 THEN Some(At(data, 4)) ELSE None]
    IN  Returned(Some(
            IF Len(data) > 6
            THEN [r1 EXCEPT !.elapsed_time = Some(LE16(data, 5))]
            ELSE r1))

\* LegacyTempC dividing by 65535 instead of 65536.
LegacyTempC_Per65535(temp_raw) ==
    RatSub(RatMulInt(Rat(temp_raw, 65535), 165), Rat(40, 1))

\* temp_raw / 65536 * 165 - 40
LegacyTempC(temp_raw) ==
    RatSub(RatMulInt(Rat(temp_raw, 65536), 165), Rat(40, 1))

\* c * 9 / 5 + 32
CToF(c) == RatAdd(RatDivInt(RatMulInt(c, 9), 5), Rat(32, 1))

\* ProcessTemperature whose current-generation threshold is >= 5000: a raw
\* value of exactly 5000 reads as 0 degrees instead of no reading.
ProcessTemperature_AtThreshold(data, r) ==
    LET m == r.model_number
    IN  IF m \in LegacyModels /\ Len(data) > 8
        THEN LET temp_raw == LE16(data, 7)
             IN  Returned(Some(
                    [r EXCEPT !.temperature_f = Some(CToF(LegacyTempC(temp_raw))),
                              !.temperature_c = Some(LegacyTempC(temp_raw))]))
        ELSE IF m >= 47 /\ Len(data) > 8
        THEN LET temp_raw == LE16(data, 7)
                 c == Rat(temp_raw - 5000, 100)
             IN  IF temp_raw >= 5000
                 THEN Returned(Some(
                        [r EXCEPT !.temperature_c = Some(c),
                                  !.temperature_f = Some(CToF(c))]))
                 ELSE Returned(Some(r))
        ELSE Returned(Some(r))

\* Lines 183-194: temperature, by model generation.
ProcessTemperature(data, r) ==
    LET m == r.model_number
    IN  IF m \in LegacyModels /\ Len(data) > 8
        THEN LET temp_raw == LE16(data, 7)
             IN  Returned(Some(
                    [r EXCEPT !.temperature_f = Some(CToF(LegacyTempC(temp_raw))),
                              !.temperature_c = Some(LegacyTempC(temp_raw))]))
        ELSE IF m >= 47 /\ Len(data) > 8
        THEN LET temp_raw == LE16(data, 7)
                 c == Rat(temp_raw - 5000, 100)
             IN  IF temp_raw > 5000
                 THEN Returned(Some(
                        [r EXCEPT !.temperature_c = Some(c),
                                  !.temperature_f = Some(CToF(c))]))
                 ELSE Returned(Some(r))
        ELSE Returned(Some(r))

\* ProcessHumidity without the model test: byte 14 is read as humidity on
\* every model.
ProcessHumidity_AnyModel(data, r) ==
    IF Len(data) > 14
    THEN Returned(Some([r EXCEPT !.humidity = Some(At(data, 14))]))
    ELSE Returned(Some(r))

\* Lines 196-198: humidity (byte 14).
ProcessHumidity(data, r) ==
    IF r.model_number \in HumidityModels /\ Len(data) > 14
    THEN Returned(Some([r EXCEPT !.humidity = Some(At(data, 14))]))
    ELSE Returned(Some(r))

\* (raw - 32767) / 100
RawToLbs(raw) == Rat(raw - 32767, 100)


\* DerivedTotal that forgets the scale factor when one side alone is present.
DerivedTotal_SingleUnscaled(left, right) ==
    IF left # None /\ right # None
    THEN Some(RatMulInt(RatDivInt(RatAdd(left[1], right[1]), 2), SCALE_FACTOR))
    ELSE IF left # None THEN left
    ELSE IF right # None THEN right
    ELSE None

\* DerivedTotal without its last branch: a right side alone gives no total.
DerivedTotal_NoRightAlone(left, right) ==
    IF left # None /\ right # None
    THEN Some(RatMulInt(RatDivInt(RatAdd(left[1], right[1]), 2), SCALE_FACTOR))
    ELSE IF left # None THEN Some(RatMulInt(left[1], SCALE_FACTOR))
    ELSE None

\* Lines 214-219: the total derived from the two sides.
DerivedTotal(left, right) ==
    IF left # None /\ right # None
    THEN Some(RatMulInt(RatDivInt(RatAdd(left[1], right[1]), 2), SCALE_FACTOR))
    ELSE IF left # None THEN Some(RatMulInt(left[1], SCALE_FACTOR))
    ELSE IF right # None THEN Some(RatMulInt(right[1], SCALE_FACTOR))
    ELSE None

\* Lines 200-219: the two sides (bytes 10-11, 12-13) and the derived total.
ProcessWeightSides(data, r) ==
    IF r.model_number \in ScaleModels /\ Len(data) > 13
    THEN LET left  == IF Len(data) > 11 /\ LE16(data, 10) # NO_READING
                      THEN Some(RawToLbs(LE16(data, 10))) ELSE None
             right == IF Len(data) > 13 /\ LE16(data, 12) # NO_READING
                      THEN Some(RawToLbs(LE16(data, 12))) ELSE None
             total == DerivedTotal(left, right)
         IN  Returned(Some(
                [r EXCEPT !.weight_left_lbs  = left,
                          !.weight_right_lbs = right,
                          !.total_weight_lbs =
                              IF total # None THEN total ELSE @]))
    ELSE Returned(Some(r))


\* ProcessWeightTotal that keeps a total already derived from the sides.
ProcessWeightTotal_KeepsDerived(data, r) ==
    IF r.model_number \in ScaleModels /\ Len(data) > 20
       /\ LE16(data, 19) # NO_READING /\ r.total_weight_lbs = None
    THEN Returned(Some(
            [r EXCEPT !.total_weight_lbs =
                Some(RatMulInt(RawToLbs(LE16(data, 19)), SCALE_FACTOR))]))
    ELSE Returned(Some(r))

\* Lines 221-226: the total-weight channel (bytes 19-20).  The guard is
\* len(data) > 19 and the block reads data[20]: IndexError when len is 20.
ProcessWeightTotal(data, r) ==
    IF r.model_number \in ScaleModels /\ Len(data) > 19
    THEN IF ~(20 < Len(data)) THEN Raised("IndexError")
         ELSE LET total_weight_raw == LE16(data, 19)
              IN  IF total_weight_raw # NO_READING
                  THEN Returned(Some(
                        [r EXCEPT !.total_weight_lbs =
                            Some(RatMulInt(RawToLbs(total_weight_raw), SCALE_FACTOR))]))
                  ELSE Returned(Some(r))
    ELSE Returned(Some(r))

\* Lines 148-228.
ProcessBroodminderManufacturerData(address, saved_device, local_name, rssi, data) ==
    LET hdr == ProcessHeader(address, saved_device, local_name, rssi, data)
    IN  IF hdr.exc = "" /\ hdr.ret # None /\ Len(data) >= 15
        THEN Then(Then(Then(Then(Then(hdr,
                 LAMBDA r : ProcessBatteryElapsed(data, r)),
                 LAMBDA r : ProcessTemperature(data, r)),
                 LAMBDA r : ProcessHumidity(data, r)),
                 LAMBDA r : ProcessWeightSides(data, r)),
                 LAMBDA r : ProcessWeightTotal(data, r))
        ELSE hdr


\* ParseItems without the comparison with the vendor id: the first entry is
\* decoded whoever the manufacturer is.
ParseItems_AnyVendor(address, saved_device, local_name, rssi, items) ==
    IF items = <<>> THEN Returned(None)
    ELSE ProcessBroodminderManufacturerData(
            address, saved_device, local_name, rssi, Head(items)[2])

\* Lines 141-145: the loop over manufacturer_data.items(), a sequence of
\* <<manufacturer_id, data>> pairs in the dict's order.
RECURSIVE ParseItems(_, _, _, _, _)
ParseItems(address, saved_device, local_name, rssi, items) ==
    IF items = <<>> THEN Returned(None)
    ELSE IF Head(items)[1] = BROODMINDER_MANUFACTURER_ID
    THEN ProcessBroodminderManufacturerData(
            address, saved_device, local_name, rssi, Head(items)[2])
    ELSE ParseItems(address, saved_device, local_name, rssi, Tail(items))

\* Lines 122-145.  a is the advertisement: address, local_name, rssi,
\* manufacturer_data.
ParseBroodminderData(a, saved_device) ==
    IF a.manufacturer_data = <<>> THEN Returned(None)
    ELSE ParseItems(a.address, saved_device, a.local_name, a.rssi,
                    a.manufacturer_data)

----------------------------------------------------------------------------
(* influx.py: the time-series sink *)

\* x > 0 for a float x.
RatPositive(x) == x[1] > 0

\* The fields of a point, each absent or a value.
Fields(temperature_c, temperature_f, humidity, total, left, right, battery, rssi) ==
    [temperature_c    |-> temperature_c,
     temperature_f    |-> temperature_f,
     humidity         |-> humidity,
     total_weight_lbs |-> total,
     weight_left_lbs  |-> left,
     weight_right_lbs |-> right,
     battery          |-> battery,
     rssi             |-> rssi]

\* Lines 75-83: the tags.
Tags(data) ==
    [device_address |-> data.address,
     device_name    |-> IF Truthy(data.name) THEN data.name[1] ELSE data.address,
     model_name     |-> data.model_name,
     model_number   |-> <<data.model_number>>,
     friendly_name  |-> IF Truthy(data.friendly_name)
                        THEN data.friendly_name[1] ELSE ""]

\* broodminder_to_point whose weight test is total >= 0.
BroodminderToPoint_NonNegative(data) ==
    LET total == data.total_weight_lbs
        pos   == total # None /\ total[1][1] >= 0
    IN  IF total = None
           /\ (data.weight_left_lbs # None \/ data.weight_right_lbs # None)
        THEN Raised("TypeError")
        ELSE Returned(Some(
            [tags   |-> Tags(data),
             fields |-> Fields(
                data.temperature_c,
                IF data.temperature_c # None THEN data.temperature_f ELSE None,
                data.humidity,
                IF pos THEN total ELSE None,
                IF pos THEN data.weight_left_lbs ELSE None,
                IF pos THEN data.weight_right_lbs ELSE None,
                data.battery,
                Some(data.rssi))]))

\* Lines 60-108.  Lines 96 and 99 compare total_weight_lbs with 0 once a side
\* is present, without testing the total for None: TypeError when it is None.
BroodminderToPoint(data) ==
    LET total == data.total_weight_lbs
        pos   == total # None /\ RatPositive(total[1])
    IN  IF total = None
           /\ (data.weight_left_lbs # None \/ data.weight_right_lbs # None)
        THEN Raised("TypeError")
        ELSE Returned(Some(
            [tags   |-> Tags(data),
             fields |-> Fields(
                data.temperature_c,
                IF data.temperature_c # None THEN data.temperature_f ELSE None,
                data.humidity,
                IF pos THEN total ELSE None,
                IF pos THEN data.weight_left_lbs ELSE None,
                IF pos THEN data.weight_right_lbs ELSE None,
                data.battery,
                Some(data.rssi))]))

----------------------------------------------------------------------------
(* Decoder inputs *)

MaxLen == 22

ModelCodes == {0, 41, 42, 43, 46, 47, 48, 49, 52, 56, 57, 58, 255}

TempRaws == {0, 5000, 5001, 65535}

LeftRaws == {32767, 37767, 27767}

RightRaws == {32767, 33017, 27767}

TotalRaws == {32767, 40000, 0}

Lo(x) == x % 256

Hi(x) == x \div 256

\* A vendor payload of n bytes: model code, firmware 1.3, battery 87,
\* elapsed 300 minutes, the given raw temperature and weights, humidity 55.
Payload(model, n, temp, left, right, total) ==
    [i \in 1..n |->
        CASE i = 1  -> model
          [] i = 2  -> 3
          [] i = 3  -> 1
          [] i = 5  -> 87
          [] i = 6  -> Lo(300)
          [] i = 7  -> Hi(300)
          [] i = 8  -> Lo(temp)
          [] i = 9  -> Hi(temp)
          [] i = 11 -> Lo(left)
          [] i = 12 -> Hi(left)
          [] i = 13 -> Lo(right)
          [] i = 14 -> Hi(right)
          [] i = 15 -> 55
          [] i = 20 -> Lo(total)
          [] i = 21 -> Hi(total)
          [] OTHER  -> 0]

AllPayloads ==
    {Payload(m, n, t, l, r, w) :
        m \in ModelCodes, n \in 0..MaxLen, t \in TempRaws,
        l \in LeftRaws, r \in RightRaws, w \in TotalRaws}

FewPayloads ==
    {Payload(m, n, 5001, 37767, 33017, 40000) :
        m \in ModelCodes, n \in 0..MaxLen}

\* The known identity the callback hands over: the stored one, or for an
\* address not in the store the one it makes up from the advertised name.
KnownIdentities(address, local_name) ==
    {Some([address |-> address, name |-> local_name, friendly_name |-> None]),
     Some([address |-> address, name |-> None, friendly_name |-> None]),
     Some([address |-> address, name |-> Some("Hive1"),
           friendly_name |-> Some("Yard")])}

LocalNames == {None, Some(""), Some("BM-A")}

OtherVendorData == <<76, <<2, 21, 1>>>>

\* The shapes of AdvertisementData.manufacturer_data around payload p.
ManufacturerData(p) ==
    {<<>>,
     <<OtherVendorData>>,
     <<<<76, p>>>>,
     <<<<BROODMINDER_MANUFACTURER_ID, p>>>>,
     <<OtherVendorData, <<BROODMINDER_MANUFACTURER_ID, p>>>>}

Advert(address, local_name, md, saved) ==
    [address |-> address, local_name |-> local_name, rssi |-> -60,
     manufacturer_data |-> md, saved_device |-> saved]

\* Every payload with a stored identity, and every model code and length in
\* every context.
DecodeInputs ==
    {Advert("A1", None, <<<<BROODMINDER_MANUFACTURER_ID, p>>>>,
            Some([address |-> "A1", name |-> Some("Hive1"),
                  friendly_name |-> Some("Yard")])) : p \in AllPayloads}
    \cup
    UNION {UNION {{Advert("A1", n, md, s) :
                      md \in ManufacturerData(p),
                      s \in KnownIdentities("A1", n)} : n \in LocalNames}
           : p \in FewPayloads}

NoAdvert == Advert("", None, <<>>, None)

\* No command is running.
NoCommand == [cmd |-> "none"]

Pending == [exc |-> "pending", ret |-> None]

----------------------------------------------------------------------------
(* cli.py: the identity store, devices.json *)

Addresses == {"A1", "A2"}

EmptyDict == <<>>

\* The file's content.  kind "object" is valid JSON whose top level is an
\* object, entries its members; the other kinds carry no entries.
FileOf(kind, entries) == [kind |-> kind, entries |-> entries]

\* A member's value: a JSON object with the given fields, or another JSON type.
JsonObject(fields) == [type |-> "object", fields |-> fields]

JsonScalar(type) == [type |-> type, fields |-> EmptyDict]

\* BroodminderDevice(**device): TypeError unless device is a mapping that
\* gives address and name and nothing beyond the three fields.
Constructible(v) ==
    /\ v.type = "object"
    /\ {"address", "name"} \subseteq DOMAIN v.fields
    /\ DOMAIN v.fields \subseteq {"address", "name", "friendly_name"}

BroodminderDevice(v) ==
    [address       |-> v.fields["address"],
     name          |-> v.fields["name"],
     friendly_name |-> IF "friendly_name" \in DOMAIN v.fields
                       THEN v.fields["friendly_name"] ELSE None]

\* Lines 90-100.
LoadSavedDevices(f) ==
    IF f.kind = "absent" THEN Returned(Some(EmptyDict))
    ELSE IF f.kind = "not_utf8" THEN Raised("UnicodeDecodeError")
    ELSE IF f.kind \in {"empty", "truncated", "garbage"}
         THEN Returned(Some(EmptyDict))             \* JSONDecodeError
    ELSE IF f.kind \in {"list", "number"}
         THEN Raised("AttributeError")              \* data.items()
    ELSE IF \E a \in DOMAIN f.entries : ~Constructible(f.entries[a])
         THEN Returned(Some(EmptyDict))             \* TypeError
    ELSE Returned(Some([a \in DOMAIN f.entries |->
                            BroodminderDevice(f.entries[a])]))

\* Lines 117-119: asdict of every device, serialised in full.
DumpDevices(saved) ==
    FileOf("object",
           [a \in DOMAIN saved |->
               JsonObject([address       |-> saved[a].address,
                           name          |-> saved[a].name,
                           friendly_name |-> saved[a].friendly_name])])


\* UpdateOne that writes a fresh BroodminderDevice when it updates the name.
UpdateOne_FreshDevice(saved, device) ==
    LET address == device.address
    IN  [a \in DOMAIN saved \cup {address} |->
            IF a = address
            THEN [address |-> address,
                  name |-> IF device.name # None THEN device.name
                           ELSE IF a \in DOMAIN saved THEN saved[a].name
                           ELSE None,
                  friendly_name |-> IF a \in DOMAIN saved /\ device.name = None
                                    THEN saved[a].friendly_name ELSE None]
            ELSE saved[a]]

\* UpdateOne that rebuilds the store around the device seen: the identities
\* of the other addresses are gone.
UpdateOne_ForgetsOthers(saved, device) ==
    [a \in {device.address} |->
        [address |-> a,
         name |-> IF device.name # None THEN device.name
                  ELSE IF a \in DOMAIN saved THEN saved[a].name
                  ELSE None,
         friendly_name |-> IF a \in DOMAIN saved
                           THEN saved[a].friendly_name ELSE None]]

\* Lines 107-113: one iteration of the loop over found_devices.
UpdateOne(saved, device) ==
    LET address == device.address
        created ==
            IF address \in DOMAIN saved THEN saved
            ELSE [a \in DOMAIN saved \cup {address} |->
                    IF a = address
                    THEN [address |-> address, name |-> None,
                          friendly_name |-> None]
                    ELSE saved[a]]
    IN  IF device.name # None
        THEN [created EXCEPT ![address].name = device.name]
        ELSE created

\* Lines 106-113: the loop over found_devices.
RECURSIVE UpdateSavedDevices(_, _)
UpdateSavedDevices(saved, found) ==
    IF found = <<>> THEN saved
    ELSE UpdateSavedDevices(UpdateOne(saved, Head(found)), Tail(found))

----------------------------------------------------------------------------
(* cli.py: scan_for_broodminder_devices *)

\* list.remove(x): drop the first element equal to x.
RECURSIVE ListRemove(_, _)
ListRemove(list, x) ==
    IF list = <<>> THEN list
    ELSE IF Head(list) = x THEN Tail(list)
    ELSE <<Head(list)>> \o ListRemove(Tail(list), x)


\* Ingest that overwrites the entry where it stands.
Ingest_InPlace(found, reading) ==
    IF \E i \in 1..Len(found) : found[i].address = reading.address
    THEN [i \in 1..Len(found) |->
            IF found[i].address = reading.address THEN reading ELSE found[i]]
    ELSE Append(found, reading)

\* Ingest that keeps the first reading of an address.
Ingest_KeepsFirst(found, reading) ==
    IF \E i \in 1..Len(found) : found[i].address = reading.address
    THEN found
    ELSE Append(found, reading)

\* Lines 326-332: drop the first entry with the reading's address, append.
Ingest(found, reading) ==
    LET hits == {i \in 1..Len(found) : found[i].address = reading.address}
    IN  IF hits = {} THEN Append(found, reading)
        ELSE LET first == CHOOSE i \in hits : \A j \in hits : i <= j
             IN  Append(ListRemove(found, found[first]), reading)

\* Lines 318-320: the known identity handed to the decoder.
SavedDeviceFor(saved, a) ==
    IF a.address \in DOMAIN saved THEN Some(saved[a.address])
    ELSE Some([address |-> a.address, name |-> a.local_name,
               friendly_name |-> None])

----------------------------------------------------------------------------
(* Session inputs *)

Device(address, name, friendly_name) ==
    [address |-> address, name |-> name, friendly_name |-> friendly_name]

InitialStores ==
    {EmptyDict,
     [a \in {"A1"} |-> Device(a, Some("Hive1"), Some("Yard"))],
     [a \in {"A1", "A2"} |->
        IF a = "A1" THEN Device(a, None, None)
        ELSE Device(a, Some("Hive2"), Some("Apiary"))]}

\* Files that are valid JSON objects but not what save_devices writes.
OddObjects ==
    {[a \in {"A1"} |-> JsonScalar("string")],
     [a \in {"A1"} |-> JsonObject([address |-> a])],
     [a \in {"A1"} |-> JsonObject([address |-> a, name |-> Some("Hive1"),
                                   friendly_name |-> Some("Yard"),
                                   rssi |-> Some("-60")])],
     [a \in {"A1"} |-> JsonObject([address |-> a, name |-> Some("Hive1")])]}

InitialFiles ==
    {FileOf(k, EmptyDict) :
        k \in {"absent", "empty", "garbage", "not_utf8", "list", "number"}}
    \cup {DumpDevices(s) : s \in InitialStores}
    \cup {FileOf("object", e) : e \in OddObjects}

SessionPayloads ==
    {Payload(42, 15, 5001, 32767, 32767, 32767),
     Payload(57, 21, 5001, 37767, 33017, 40000),
     Payload(41, 2, 0, 32767, 32767, 32767),
     Payload(43, 20, 0, 37767, 33017, 40000)}

SessionAdverts ==
    {Advert(a, n, md, None) :
        a \in Addresses, n \in LocalNames,
        md \in {<<>>, <<OtherVendorData>>}
               \cup {<<<<BROODMINDER_MANUFACTURER_ID, p>>>> : p \in SessionPayloads}}

Range(seq) == {seq[i] : i \in 1..Len(seq)}

Without(seq, x) == SelectSeq(seq, LAMBDA y : y # x)

----------------------------------------------------------------------------
(* The scan session *)

Init ==
    /\ file \in InitialFiles
    /\ saved_devices = EmptyDict
    /\ devices_found = <<>>
    /\ pc = "idle"
    /\ file_before = file
    /\ first_seen = <<>>
    /\ last_seen = <<>>
    /\ latest = EmptyDict
    /\ named = {}
    /\ store_before = EmptyDict
    /\ observed = Pending
    /\ adv = NoAdvert
    /\ result = Pending
    /\ point = Pending
    /\ loop = NoCommand

\* Lines 312-315, 340-342: a session begins by loading the store.  An
\* exception of load_saved_devices ends the session.
StartSession ==
    /\ pc \in {"idle", "saved", "load_raised", "save_raised"}
    /\ LET lo == LoadSavedDevices(file)
       IN  IF lo.exc # ""
           THEN /\ pc' = "load_raised"
                /\ saved_devices' = EmptyDict
                /\ store_before' = EmptyDict
           ELSE /\ pc' = "scanning"
                /\ saved_devices' = lo.ret[1]
                /\ store_before' = lo.ret[1]
    /\ devices_found' = <<>>
    /\ file_before' = file
    /\ first_seen' = <<>>
    /\ last_seen' = <<>>
    /\ latest' = EmptyDict
    /\ named' = {}
    /\ observed' = Pending
    /\ UNCHANGED <<file, adv, result, point, loop>>

\* Lines 317-332: the detection callback on advertisement a.  When the decoder
\* raises, the callback ends before it touches devices_found.
Callback(a) ==
    /\ pc = "scanning"
    /\ LET o == ParseBroodminderData(a, SavedDeviceFor(saved_devices, a))
       IN  IF o.exc = "" /\ o.ret # None
           THEN /\ devices_found' = Ingest(devices_found, o.ret[1])
                /\ first_seen' = IF a.address \in Range(first_seen)
                                 THEN first_seen
                                 ELSE Append(first_seen, a.address)
                /\ last_seen' = Append(Without(last_seen, a.address), a.address)
                /\ latest' = [x \in DOMAIN latest \cup {a.address} |->
                                IF x = a.address THEN o.ret[1] ELSE latest[x]]
           ELSE UNCHANGED <<devices_found, first_seen, last_seen, latest>>
    /\ named' = IF Truthy(a.local_name) THEN named \cup {a.address} ELSE named
    /\ UNCHANGED <<file, saved_devices, pc, file_before, store_before,
                   observed, adv, result, point, loop>>

\* Lines 344-347 and 106-118: the scan stops, save_devices updates the store
\* and opens the file for writing, which truncates it.
SaveBegin ==
    /\ pc = "scanning"
    /\ saved_devices' = UpdateSavedDevices(saved_devices, devices_found)
    /\ file_before' = file
    /\ file' = FileOf("empty", EmptyDict)
    /\ pc' = "dumping"
    /\ UNCHANGED <<devices_found, first_seen, last_seen, latest, named,
                   store_before, observed, adv, result, point, loop>>

\* Line 119: json.dump has written a part of the text to the file.
SaveFlush ==
    /\ pc = "dumping"
    /\ file.kind = "empty"
    /\ file' = FileOf("truncated", EmptyDict)
    /\ UNCHANGED <<saved_devices, devices_found, pc, file_before, first_seen,
                   last_seen, latest, named, store_before, observed, adv, result, point, loop>>

\* Lines 118-119: json.dump and the close of the file complete.
SaveFinish ==
    /\ pc = "dumping"
    /\ file' = DumpDevices(saved_devices)
    /\ pc' = "saved"
    /\ UNCHANGED <<saved_devices, devices_found, file_before, first_seen,
                   last_seen, latest, named, store_before, observed, adv, result, point, loop>>

\* Lines 118-119: the write fails (disk full, interrupt); the exception leaves
\* save_devices and the file stays as far as it was written.
SaveFail ==
    /\ pc = "dumping"
    /\ pc' = "save_raised"
    /\ UNCHANGED <<file, saved_devices, devices_found, file_before, first_seen,
                   last_seen, latest, named, store_before, observed, adv, result, point, loop>>

\* Lines 90-100 in another process, while this one is inside save_devices.
ConcurrentLoad ==
    /\ pc = "dumping"
    /\ observed' = LoadSavedDevices(file)
    /\ UNCHANGED <<file, saved_devices, devices_found, pc, file_before,
                   first_seen, last_seen, latest, named, store_before, adv, result, point, loop>>

Next ==
    \/ StartSession
    \/ \E a \in SessionAdverts : Callback(a)
    \/ SaveBegin
    \/ SaveFlush
    \/ SaveFinish
    \/ SaveFail
    \/ ConcurrentLoad

Spec == Init /\ [][Next]_vars

----------------------------------------------------------------------------
(* The decoder alone, on every input of DecodeInputs *)

DecodeInit ==
    /\ file = FileOf("absent", EmptyDict)
    /\ saved_devices = EmptyDict
    /\ devices_found = <<>>
    /\ pc = "idle"
    /\ file_before = file
    /\ first_seen = <<>>
    /\ last_seen = <<>>
    /\ latest = EmptyDict
    /\ named = {}
    /\ store_before = EmptyDict
    /\ observed = Pending
    /\ adv \in DecodeInputs
    /\ result = Pending
    /\ point = Pending
    /\ loop = NoCommand

\* Lines 122-145 applied to adv with its known identity.
Decode ==
    /\ result = Pending
    /\ result' = ParseBroodminderData(adv, adv.saved_device)
    /\ UNCHANGED <<sessionVars, adv, point, loop>>

\* influx.py lines 60-108 applied to the reading the decoder returned.
ToPoint ==
    /\ result.exc = ""
    /\ result.ret # None
    /\ point = Pending
    /\ point' = BroodminderToPoint(result.ret[1])
    /\ UNCHANGED <<sessionVars, adv, result, loop>>

DecodeNext == Decode \/ ToPoint

DecodeSpec == DecodeInit /\ [][DecodeNext]_vars

----------------------------------------------------------------------------
(* cli.py: one whole scan, as the commands that loop call it *)

\* Lines 317-332 over the advertisements of one scan, in order.  A callback
\* whose decoder returns None or raises adds nothing.
RECURSIVE Callbacks(_, _, _)
Callbacks(saved, adverts, found) ==
    IF adverts = <<>> THEN found
    ELSE LET a == Head(adverts)
             o == ParseBroodminderData(a, SavedDeviceFor(saved, a))
         IN  Callbacks(saved, Tail(adverts),
                       IF o.exc = "" /\ o.ret # None
                       THEN Ingest(found, o.ret[1]) ELSE found)

\* Lines 298-349: load the store, run the callbacks, save, return the list.
\* write_ok tells whether the write of devices.json succeeds.
ScanForBroodminderDevices(f, adverts, write_ok) ==
    LET lo == LoadSavedDevices(f)
    IN  IF lo.exc # ""
        THEN [exc |-> lo.exc, file |-> f, saved |-> EmptyDict,
              found |-> <<>>, pc |-> "load_raised"]
        ELSE LET found == Callbacks(lo.ret[1], adverts, <<>>)
                 saved == UpdateSavedDevices(lo.ret[1], found)
             IN  IF write_ok
                 THEN [exc |-> "", file |-> DumpDevices(saved),
                       saved |-> saved, found |-> found, pc |-> "saved"]
                 ELSE [exc |-> "OSError", file |-> FileOf("truncated", EmptyDict),
                       saved |-> saved, found |-> found, pc |-> "save_raised"]

\* Lines 590-591 and 668-669: devices[device.address] = device for every
\* device of the list, in order.
MergeDevices(devices, found) ==
    [a \in DOMAIN devices \cup {found[i].address : i \in 1..Len(found)} |->
        IF \E i \in 1..Len(found) : found[i].address = a
        THEN found[CHOOSE i \in 1..Len(found) :
                     /\ found[i].address = a
                     /\ \A j \in 1..Len(found) : found[j].address = a => j <= i]
        ELSE devices[a]]

\* The --interval option, in seconds.
Interval == 1

\* The clock stops the model at MaxNow seconds after start_time.
MaxNow == 4

\* --duration: continuous (the default -1, or 0), or 3 seconds.
Durations == {-1, 0, 3}

LoopFiles ==
    {FileOf("absent", EmptyDict),
     FileOf("list", EmptyDict),
     DumpDevices([a \in {"A1"} |-> Device(a, Some("Hive1"), Some("Yard"))])}

LoopAdverts ==
    {Advert("A1", None,
            <<<<BROODMINDER_MANUFACTURER_ID,
                Payload(42, 15, 5001, 32767, 32767, 32767)>>>>, None),
     Advert("A1", Some("BM-A"),
            <<<<BROODMINDER_MANUFACTURER_ID,
                Payload(57, 21, 5001, 37767, 33017, 40000)>>>>, None),
     Advert("A2", None,
            <<<<BROODMINDER_MANUFACTURER_ID,
                Payload(57, 21, 5001, 37767, 33017, 40000)>>>>, None),
     Advert("A2", Some("BM-B"),
            <<<<BROODMINDER_MANUFACTURER_ID,
                Payload(43, 20, 0, 37767, 33017, 40000)>>>>, None)}

\* What one scan hears: up to two advertisements.
AdvertSeqs ==
    {<<>>} \cup {<<a>> : a \in LoopAdverts}
           \cup {<<a, b>> : a \in LoopAdverts, b \in LoopAdverts}

\* The locals of a looping command at its start: devices = {}, start_time =
\* now.  token: whether --token or INFLUXDB_TOKEN gives a token.  pushes and
\* io_failed are history: the outcome of every push attempted, and whether a
\* scan raised.
Command(cmd, duration, token) ==
    [cmd       |-> cmd,
     pc        |-> "cycle",
     devices   |-> EmptyDict,
     duration  |-> duration,
     now       |-> 0,
     token     |-> token,
     pushes    |-> <<>>,
     error     |-> "",
     io_failed |-> FALSE]

----------------------------------------------------------------------------
(* cli.py: monitor *)

MonitorInit ==
    /\ file \in LoopFiles
    /\ saved_devices = EmptyDict
    /\ devices_found = <<>>
    /\ pc = "idle"
    /\ file_before = file
    /\ first_seen = <<>>
    /\ last_seen = <<>>
    /\ latest = EmptyDict
    /\ named = {}
    /\ store_before = EmptyDict
    /\ observed = Pending
    /\ adv = NoAdvert
    /\ result = Pending
    /\ point = Pending
    /\ \E d \in Durations : loop = Command("monitor", d, FALSE)

\* Lines 575-616: one turn of the while loop.  The duration test, the scan,
\* the update of devices and the display; then line 606 calls sleep(5), a
\* name the module never binds (line 17 imports time only): NameError, caught
\* at line 610, exit code 1.  An exception of the scan is caught there too.
MonitorCycle ==
    /\ loop.cmd = "monitor"
    /\ loop.pc = "cycle"
    /\ IF loop.duration > 0 /\ loop.now >= loop.duration
       THEN /\ loop' = [loop EXCEPT !.pc = "done"]
            /\ UNCHANGED <<file, saved_devices, devices_found, pc>>
       ELSE /\ loop.now < MaxNow
            /\ \E adverts \in AdvertSeqs, write_ok \in BOOLEAN :
                 LET o == ScanForBroodminderDevices(file, adverts, write_ok)
                 IN  /\ file' = o.file
                     /\ saved_devices' = o.saved
                     /\ devices_found' = o.found
                     /\ pc' = o.pc
                     /\ loop' =
                          IF o.exc # ""
                          THEN [loop EXCEPT !.pc = "exit_error",
                                            !.error = o.exc,
                                            !.io_failed = TRUE,
                                            !.now = @ + Interval]
                          ELSE [loop EXCEPT !.devices = MergeDevices(@, o.found),
                                            !.now = @ + Interval,
                                            !.pc = "exit_error",
                                            !.error = "NameError"]
    /\ UNCHANGED <<file_before, first_seen, last_seen, latest, named,
                   store_before, observed, adv, result, point>>

\* Lines 608-609: Ctrl+C while the loop runs.
MonitorInterrupt ==
    /\ loop.cmd = "monitor"
    /\ loop.pc = "cycle"
    /\ loop' = [loop EXCEPT !.pc = "stopped"]
    /\ UNCHANGED <<sessionVars, adv, result, point>>

MonitorNext == MonitorCycle \/ MonitorInterrupt

MonitorSpec == MonitorInit /\ [][MonitorNext]_vars

----------------------------------------------------------------------------
(* cli.py: influx_push *)

\* influx.py lines 157-175 on the values of devices.  The writer's
\* constructor raises ValueError without a token (lines 54-55); write_batch
\* converts every reading (line 129) and writes; reachable tells whether the
\* server takes the write.
SendBatchToInfluxdb(devices, token, reachable) ==
    IF ~token THEN Raised("ValueError")
    ELSE IF \E a \in DOMAIN devices : BroodminderToPoint(devices[a]).exc # ""
    THEN Raised("TypeError")
    ELSE IF ~reachable THEN Raised("ApiException")
    ELSE Returned(None)

\* AfterPush without the inner try: the exception of a push reaches the outer
\* handler, which exits with code 1.
AfterPush_Propagates(o) == IF o.exc = "" THEN "sleep" ELSE "exit_error"

\* Lines 676-680: where the loop goes after the push.  Its exception is
\* caught and printed; either way the display and the sleep come next.
AfterPush(o) == IF o.exc = "" THEN "sleep" ELSE "sleep"

InfluxInit ==
    /\ file \in LoopFiles
    /\ saved_devices = EmptyDict
    /\ devices_found = <<>>
    /\ pc = "idle"
    /\ file_before = file
    /\ first_seen = <<>>
    /\ last_seen = <<>>
    /\ latest = EmptyDict
    /\ named = {}
    /\ store_before = EmptyDict
    /\ observed = Pending
    /\ adv = NoAdvert
    /\ result = Pending
    /\ point = Pending
    /\ \E d \in Durations, t \in BOOLEAN : loop = Command("influx_push", d, t)

\* Lines 654-669: the duration test, the scan and the update of devices.  An
\* exception of the scan reaches line 700: exit code 1.
InfluxCycle ==
    /\ loop.cmd = "influx_push"
    /\ loop.pc = "cycle"
    /\ IF loop.duration > 0 /\ loop.now >= loop.duration
       THEN /\ loop' = [loop EXCEPT !.pc = "done"]
            /\ UNCHANGED <<file, saved_devices, devices_found, pc>>
       ELSE /\ loop.now < MaxNow
            /\ \E adverts \in AdvertSeqs, write_ok \in BOOLEAN :
                 LET o == ScanForBroodminderDevices(file, adverts, write_ok)
                     merged == MergeDevices(loop.devices, o.found)
                 IN  /\ file' = o.file
                     /\ saved_devices' = o.saved
                     /\ devices_found' = o.found
                     /\ pc' = o.pc
                     /\ loop' =
                          IF o.exc # ""
                          THEN [loop EXCEPT !.pc = "exit_error",
                                            !.error = o.exc,
                                            !.io_failed = TRUE,
                                            !.now = @ + Interval]
                          ELSE [loop EXCEPT !.devices = merged,
                                            !.now = @ + Interval,
                                            !.pc = IF merged # EmptyDict
                                                   THEN "push" ELSE "sleep"]
    /\ UNCHANGED <<file_before, first_seen, last_seen, latest, named,
                   store_before, observed, adv, result, point>>

\* Lines 672-693: the push of list(devices.values()) and the display.
InfluxPush ==
    /\ loop.cmd = "influx_push"
    /\ loop.pc = "push"
    /\ \E reachable \in BOOLEAN :
         LET o == SendBatchToInfluxdb(loop.devices, loop.token, reachable)
         IN  loop' = [loop EXCEPT
                        !.pushes = Append(@, IF o.exc = "" THEN "ok" ELSE "failed"),
                        !.pc = AfterPush(o),
                        !.error = IF AfterPush(o) = "exit_error" THEN o.exc ELSE @]
    /\ UNCHANGED <<sessionVars, adv, result, point>>

\* Line 696: time.sleep(interval), then the top of the loop.
InfluxSleep ==
    /\ loop.cmd = "influx_push"
    /\ loop.pc = "sleep"
    /\ loop' = [loop EXCEPT !.now = @ + Interval, !.pc = "cycle"]
    /\ UNCHANGED <<sessionVars, adv, result, point>>

\* Lines 698-699: Ctrl+C while the loop runs.
InfluxInterrupt ==
    /\ loop.cmd = "influx_push"
    /\ loop.pc \in {"cycle", "push", "sleep"}
    /\ loop' = [loop EXCEPT !.pc = "stopped"]
    /\ UNCHANGED <<sessionVars, adv, result, point>>

InfluxNext == InfluxCycle \/ InfluxPush \/ InfluxSleep \/ InfluxInterrupt

\* The command is one sequential program: a scan returns after the interval,
\* a push returns or raises, a sleep ends.
InfluxSpec ==
    /\ InfluxInit
    /\ [][InfluxNext]_vars
    /\ WF_vars(InfluxCycle)
    /\ WF_vars(InfluxPush)
    /\ WF_vars(InfluxSleep)

----------------------------------------------------------------------------
(* Claims about the decoder, checked under DecodeSpec *)

\* adv carries a payload under vendor id 0x028D.
HasVendorEntry ==
    \E i \in 1..Len(adv.manufacturer_data) : adv.manufacturer_data[i][1] = 653

\* That payload.
VendorData ==
    adv.manufacturer_data[
        CHOOSE i \in 1..Len(adv.manufacturer_data) :
            adv.manufacturer_data[i][1] = 653][2]

Decoded == result # Pending

ScaleInput == HasVendorEntry /\ Len(VendorData) >= 3 /\ VendorData[1] \in {43, 47, 49, 56, 57, 58}

\* The 16-bit little-endian raw value at Python indices lo, lo + 1.
RawAt(lo) == VendorData[lo + 1] + 256 * VendorData[lo + 2]

\* What the sides alone give: the mean of two sides, or the one side, times 2.
ExpectedSide(raw) == IF raw = 32767 THEN None ELSE Some(Rat(raw - 32767, 100))

ExpectedDerivedTotal(l, r) ==
    IF l # 32767 /\ r # 32767 THEN Some(Rat((l - 32767) + (r - 32767), 100))
    ELSE IF l # 32767 THEN Some(Rat(2 * (l - 32767), 100))
    ELSE IF r # 32767 THEN Some(Rat(2 * (r - 32767), 100))
    ELSE None

\* C1: decoding never raises: on every input the decoder returns a reading or
\* None.
DecodeNeverRaises == result.exc \in {"pending", ""}

\* C8: the decoder returns None when the advertisement has no payload under
\* vendor id 0x028D and when that payload has fewer than 3 bytes, whatever the
\* name, the known identity and the bytes present.
AbsentWithoutVendorPayload ==
    (Decoded /\ (~HasVendorEntry \/ Len(VendorData) < 3))
        => result = Returned(None)

AbsentOnTwoBytes ==
    /\ result = Returned(None)
    /\ HasVendorEntry
    /\ Len(VendorData) = 2
    /\ adv.local_name = Some("BM-A")

\* C9: for a scale model and a payload holding bytes 10-13 and 19-20, the
\* total is (totalWeightRaw - 32767)/100 * 2 when bytes 19-20 are not 0x7FFF,
\* whatever the sides are, and the total derived from the sides when they are.
TotalOverrideWins ==
    (Decoded /\ ScaleInput /\ Len(VendorData) >= 21)
        => /\ result.exc = ""
           /\ result.ret # None
           /\ result.ret[1].total_weight_lbs =
                IF RawAt(19) # 32767
                THEN Some(Rat(2 * (RawAt(19) - 32767), 100))
                ELSE ExpectedDerivedTotal(RawAt(10), RawAt(12))

OverrideDiffersFromSides ==
    /\ Decoded
    /\ ScaleInput
    /\ Len(VendorData) >= 21
    /\ RawAt(10) = 37767
    /\ RawAt(12) = 33017
    /\ RawAt(19) = 40000
    /\ result.ret[1].weight_left_lbs = Some(<<50, 1>>)
    /\ result.ret[1].total_weight_lbs = Some(<<7233, 50>>)

\* C10: for a scale model and a payload of 15 to 19 bytes, a side whose raw
\* value is 0x7FFF is absent and the other side is (raw - 32767)/100; the total
\* is (left + right)/2 * 2 with both sides, side * 2 with one, absent with none.
SideSentinels ==
    (Decoded /\ ScaleInput /\ Len(VendorData) \in 15..19)
        => /\ result.exc = ""
           /\ result.ret # None
           /\ result.ret[1].weight_left_lbs = ExpectedSide(RawAt(10))
           /\ result.ret[1].weight_right_lbs = ExpectedSide(RawAt(12))
           /\ result.ret[1].total_weight_lbs =
                ExpectedDerivedTotal(RawAt(10), RawAt(12))

LeftSentinelRightValid ==
    /\ Decoded
    /\ ScaleInput
    /\ Len(VendorData) = 17
    /\ RawAt(10) = 32767
    /\ RawAt(12) = 33017
    /\ result.ret[1].weight_left_lbs = None
    /\ result.ret[1].weight_right_lbs = Some(<<5, 2>>)
    /\ result.ret[1].total_weight_lbs = Some(<<5, 1>>)

\* The decoder returned a reading.
ReadingReturned == Decoded /\ result.exc = "" /\ result.ret # None

Reading == result.ret[1]

\* c * 9 / 5 + 32 as one fraction.
ExpectedF(c) ==
    IF c = None THEN None
    ELSE Some(Rat(9 * c[1][1] + 160 * c[1][2], 5 * c[1][2]))

ExpectedCurrentC(raw) ==
    IF raw > 5000 THEN Some(Rat(raw - 5000, 100)) ELSE None

ExpectedLegacyC(raw) == Some(Rat(165 * raw - 40 * 65536, 65536))

\* C11 as stated: in the reading of a model code >= 47 and a payload holding
\* bytes 7-8 (length > 8), temperatureC is absent when tempRaw <= 5000 and
\* (tempRaw - 5000)/100 when tempRaw > 5000, temperatureF is
\* temperatureC*9/5 + 32, and the two are both present or both absent.
CurrentTemperatureFromNineBytes ==
    ReadingReturned
        => /\ (Reading.temperature_c = None) <=> (Reading.temperature_f = None)
           /\ (VendorData[1] >= 47 /\ Len(VendorData) > 8)
                => /\ Reading.temperature_c = ExpectedCurrentC(RawAt(7))
                   /\ Reading.temperature_f = ExpectedF(Reading.temperature_c)

\* C11 amended: the same for a payload of at least 15 bytes; a shorter
\* payload gives a reading without temperature whatever bytes 7-8 hold.
CurrentTemperatureThreshold ==
    ReadingReturned
        => /\ (Reading.temperature_c = None) <=> (Reading.temperature_f = None)
           /\ (VendorData[1] >= 47 /\ Len(VendorData) >= 15)
                => /\ Reading.temperature_c = ExpectedCurrentC(RawAt(7))
                   /\ Reading.temperature_f = ExpectedF(Reading.temperature_c)
           /\ (VendorData[1] >= 47 /\ Len(VendorData) < 15)
                => Reading.temperature_c = None

JustAboveThreshold ==
    /\ ReadingReturned
    /\ VendorData[1] = 52
    /\ Len(VendorData) = 15
    /\ RawAt(7) = 5001
    /\ Reading.temperature_c = Some(<<1, 100>>)
    /\ Reading.temperature_f = Some(<<16009, 500>>)

\* C12 as stated: in the reading of a model code 41, 42 or 43 and a payload
\* holding bytes 7-8 (length > 8), temperatureC is tempRaw/65536*165 - 40 and
\* temperatureF is temperatureC*9/5 + 32; tempRaw = 0 gives -40.
LegacyTemperatureFromNineBytes ==
    (ReadingReturned /\ VendorData[1] \in {41, 42, 43} /\ Len(VendorData) > 8)
        => /\ Reading.temperature_c = ExpectedLegacyC(RawAt(7))
           /\ Reading.temperature_f = ExpectedF(Reading.temperature_c)
           /\ RawAt(7) = 0 => Reading.temperature_c = Some(<<-40, 1>>)

\* C12 amended: the same for a payload of at least 15 bytes; a shorter
\* payload gives a reading without temperature.
LegacyTemperature ==
    (ReadingReturned /\ VendorData[1] \in {41, 42, 43})
        => IF Len(VendorData) >= 15
           THEN /\ Reading.temperature_c = ExpectedLegacyC(RawAt(7))
                /\ Reading.temperature_f = ExpectedF(Reading.temperature_c)
                /\ RawAt(7) = 0 => Reading.temperature_c = Some(<<-40, 1>>)
           ELSE /\ Reading.temperature_c = None
                /\ Reading.temperature_f = None

LegacyZeroIsMinusForty ==
    /\ ReadingReturned
    /\ VendorData[1] = 42
    /\ Len(VendorData) = 16
    /\ RawAt(7) = 0
    /\ Reading.temperature_c = Some(<<-40, 1>>)
    /\ Reading.temperature_f = Some(<<-40, 1>>)

\* C13: in every reading the decoder returns, an optional field is present
\* only if the payload holds the field's bytes and the model has the
\* quantity: battery byte 4, elapsed bytes 5-6, temperature bytes 7-8 on
\* models 41-43 and >= 47, humidity byte 14 on models 42 and 47, the sides
\* bytes 10-11 and 12-13 and the total on models 43, 47, 49, 56, 57, 58.
OptionalFieldsOnlyWhenCarried ==
    ReadingReturned
        => LET n == Len(VendorData)
               m == VendorData[1]
               scale == m \in {43, 47, 49, 56, 57, 58}
           IN  /\ Reading.battery # None => n > 4
               /\ Reading.elapsed_time # None => n > 6
               /\ Reading.temperature_c # None
                    => n > 8 /\ (m \in {41, 42, 43} \/ m >= 47)
               /\ Reading.temperature_f # None
                    => n > 8 /\ (m \in {41, 42, 43} \/ m >= 47)
               /\ Reading.humidity # None => n > 14 /\ m \in {42, 47}
               /\ Reading.weight_left_lbs # None => n > 11 /\ scale
               /\ Reading.weight_right_lbs # None => n > 13 /\ scale
               /\ Reading.total_weight_lbs # None => n > 13 /\ scale

TemperatureOnlyModel ==
    /\ ReadingReturned
    /\ VendorData[1] = 41
    /\ Len(VendorData) = 22
    /\ Reading.battery = Some(87)
    /\ Reading.elapsed_time = Some(300)
    /\ Reading.temperature_c # None
    /\ Reading.humidity = None
    /\ Reading.weight_left_lbs = None
    /\ Reading.weight_right_lbs = None
    /\ Reading.total_weight_lbs = None

\* C17: in every reading the decoder returns, whatever the model code and the
\* payload length, a present left or right weight comes with a present total.
SidePresentImpliesTotal ==
    ReadingReturned
        => ((Reading.weight_left_lbs # None \/ Reading.weight_right_lbs # None)
                => Reading.total_weight_lbs # None)

RightAloneHasTotal ==
    /\ ReadingReturned
    /\ Len(VendorData) = 15
    /\ RawAt(10) = 32767
    /\ RawAt(12) = 27767
    /\ Reading.weight_left_lbs = None
    /\ Reading.weight_right_lbs = Some(<<-50, 1>>)
    /\ Reading.total_weight_lbs = Some(<<-100, 1>>)

\* The reading was converted to a point.
Converted == point # Pending

\* C16: the point of a reading has total_weight_lbs, weight_left_lbs and
\* weight_right_lbs only if the reading's total is present and > 0, and then
\* each of them that the reading has; with a total that is zero, negative or
\* absent it has none of the three; temperature, humidity and battery are
\* carried over unchanged, absent staying absent.
PointWeightsOnlyWhenTotalPositive ==
    Converted
        => /\ point.exc = ""
           /\ LET f     == point.ret[1].fields
                  total == Reading.total_weight_lbs
                  pos   == total # None /\ total[1][1] > 0
              IN  /\ f.total_weight_lbs = IF pos THEN total ELSE None
                  /\ f.weight_left_lbs =
                        IF pos THEN Reading.weight_left_lbs ELSE None
                  /\ f.weight_right_lbs =
                        IF pos THEN Reading.weight_right_lbs ELSE None
                  /\ f.temperature_c = Reading.temperature_c
                  /\ f.temperature_f = Reading.temperature_f
                  /\ f.humidity = Reading.humidity
                  /\ f.battery = Reading.battery

ZeroTotalDropsWeights ==
    /\ Converted
    /\ Reading.weight_left_lbs = Some(<<50, 1>>)
    /\ Reading.weight_right_lbs = Some(<<-50, 1>>)
    /\ Reading.total_weight_lbs = Some(<<0, 1>>)
    /\ Reading.humidity = Some(55)
    /\ point.ret[1].fields.total_weight_lbs = None
    /\ point.ret[1].fields.weight_left_lbs = None
    /\ point.ret[1].fields.weight_right_lbs = None
    /\ point.ret[1].fields.humidity = Some(55)
    /\ point.ret[1].fields.battery = Some(87)



FoundAddresses == [i \in 1..Len(devices_found) |-> devices_found[i].address]

StoreUpdated == pc \in {"dumping", "saved", "save_raised"}

\* C2 as stated: the order of devices_found is the order of first sighting.
SnapshotInFirstSightingOrder == FoundAddresses = first_seen

\* C2 amended: the order of devices_found is the order of the most recent
\* sighting: a newer reading of an address already present takes the old
\* entry out and goes to the end of the list.
SnapshotInLastSightingOrder == FoundAddresses = last_seen

ReplacementMovedEntry ==
    /\ pc = "scanning"
    /\ Len(devices_found) = 2
    /\ first_seen # last_seen

\* C3: devices_found holds exactly one entry per address ingested so far, and
\* it is, field for field, the reading ingested last for that address.
OnePerAddressLatest ==
    /\ Range(FoundAddresses) = DOMAIN latest
    /\ Len(devices_found) = Cardinality(DOMAIN latest)
    /\ \A i \in 1..Len(devices_found) :
          devices_found[i] = latest[devices_found[i].address]

ReplacedAmongTwo ==
    /\ pc = "scanning"
    /\ first_seen = <<"A1", "A2">>
    /\ last_seen = <<"A2", "A1">>
    /\ devices_found[1].model_number = 42
    /\ devices_found[2].model_number = 57
    /\ devices_found[2].name = Some("BM-A")

\* C4: a reader that loads devices.json while save_devices writes it gets the
\* previous store or the new one.
ReaderSeesOldOrNew ==
    \/ observed = Pending
    \/ observed = LoadSavedDevices(file_before)
    \/ observed = LoadSavedDevices(DumpDevices(saved_devices))

\* C5: load_saved_devices never raises, whatever the file holds.
LoadNeverRaises == pc # "load_raised"

\* C6: after save_devices every address of the loaded store keeps its
\* friendly_name, in the store and in the file written, and every identity
\* created in the session has friendly_name None.
FriendlyNamePreserved ==
    /\ StoreUpdated =>
          /\ DOMAIN store_before \subseteq DOMAIN saved_devices
          /\ \A a \in DOMAIN store_before :
                saved_devices[a].friendly_name = store_before[a].friendly_name
          /\ \A a \in DOMAIN saved_devices \ DOMAIN store_before :
                saved_devices[a].friendly_name = None
    /\ pc = "saved" =>
          /\ file.kind = "object"
          /\ \A a \in DOMAIN store_before :
                /\ a \in DOMAIN file.entries
                /\ file.entries[a].fields["friendly_name"]
                      = store_before[a].friendly_name
          /\ \A a \in DOMAIN file.entries \ DOMAIN store_before :
                file.entries[a].fields["friendly_name"] = None

RenamedKeepsFriendlyName ==
    /\ pc = "saved"
    /\ "A1" \in DOMAIN store_before
    /\ store_before["A1"].friendly_name = Some("Yard")
    /\ store_before["A1"].name = Some("Hive1")
    /\ saved_devices["A1"].name = Some("BM-A")
    /\ "A2" \in DOMAIN saved_devices

\* C7: the stored name of an address changes in a session (or, for a new
\* identity, is not None) only if an advertisement for that address carried a
\* non-empty local name, and no empty name is ever stored.
NameOnlyFromAdvertisedName ==
    StoreUpdated =>
        \A a \in DOMAIN saved_devices :
            /\ saved_devices[a].name # Some("")
            /\ saved_devices[a].name #
                    (IF a \in DOMAIN store_before
                     THEN store_before[a].name ELSE None)
                => a \in named

----------------------------------------------------------------------------
(* Claims about the commands that loop, checked under MonitorSpec and
   InfluxSpec *)

\* C14: monitor keeps running scan cycles until the user interrupts it or,
\* with a duration > 0, until the duration has elapsed; when no scan and no
\* store I/O fails it never ends with the error exit.
MonitorErrorExitOnlyOnIOFailure ==
    (loop.cmd = "monitor" /\ loop.pc = "exit_error") => loop.io_failed

LastPushFailed ==
    /\ loop.pushes # <<>>
    /\ loop.pushes[Len(loop.pushes)] = "failed"

\* C18: in influx_push a push that fails, a missing token included, is caught:
\* the loop goes on to its sleep with the table of latest readings unchanged,
\* the command ends with the error exit only when a scan raised, and after a
\* failed push the next push is attempted unless the duration has elapsed, the
\* user interrupts or a scan raises (as far as the clock of the model lets
\* the next cycle begin).
PushFailureKeepsLoop ==
    /\ [][(loop.cmd = "influx_push" /\ loop.pc = "push" /\ loop'.pc # "stopped")
            => /\ loop'.pc = "sleep"
               /\ loop'.devices = loop.devices
               /\ Len(loop'.pushes) = Len(loop.pushes) + 1]_vars
    /\ []((loop.cmd = "influx_push" /\ loop.pc = "exit_error") => loop.io_failed)
    /\ (/\ loop.cmd = "influx_push"
        /\ loop.pc = "sleep"
        /\ LastPushFailed
        /\ loop.now + Interval < MaxNow)
          ~> (\/ loop.pc \in {"push", "stopped"}
              \/ loop.pc = "exit_error" /\ loop.io_failed
              \/ loop.pc = "done" /\ loop.duration > 0
                                  /\ loop.now >= loop.duration)

PushAgainAfterFailure ==
    /\ loop.cmd = "influx_push"
    /\ ~loop.token
    /\ loop.pushes = <<"failed", "failed">>
    /\ loop.pc = "sleep"
    /\ loop.devices # EmptyDict
    /\ ~loop.io_failed

============================================================================
